---- MODULE Spec2Model ----
(***************************************************************************)
(* SummarizeIt (src/app.py): a Streamlit page that takes a URL, extracts   *)
(* a YouTube transcript or a web page's text, and asks a chat-completion   *)
(* model for a summary.                                                    *)
(*                                                                         *)
(* Strings are sequences of symbols.  A symbol is either one character     *)
(* (" ", "/", "?", "&", "=", "a") or a lexical unit of a URL that the      *)
(* code never splits ("https://", "www.youtube.com", "watch", "v", ...).   *)
(* The units are chosen so that the substrings the code searches for       *)
(* ('youtube.com', 'youtu.be') can only occur inside one unit.             *)
(***************************************************************************)
EXTENDS Integers, Sequences, FiniteSets, TLC

\* ------------------------------------------------------------- bounds
\* the longest query string of an input URL, in key=value fields
MaxParams == 2
\* the most text segments a transcript fetch returns
MaxSegments == 2
\* the most paragraphs / headings a fetched page holds
MaxParagraphs == 2

\* ------------------------------------------------------------ Python
\* Python's None, for variables that hold a string or None
None == <<"None">>

\* truth value of a str-or-None object: None and '' are falsy
Truthy(s) == s # None /\ s # <<>>

Min(S) == CHOOSE x \in S : \A y \in S : x <= y
Max(S) == CHOOSE x \in S : \A y \in S : x >= y

\* mutant: the blank check without .strip()
strip_nothing(s) == s

\* str.strip(): drop leading and trailing whitespace
strip(s) ==
    LET keep == {i \in 1..Len(s) : s[i] # " "}
    IN  IF keep = {} THEN <<>> ELSE SubSeq(s, Min(keep), Max(keep))

\* sep.join(parts)
RECURSIVE join(_, _)
join(sep, parts) ==
    IF parts = <<>> THEN <<>>
    ELSE IF Len(parts) = 1 THEN parts[1]
    ELSE parts[1] \o sep \o join(sep, Tail(parts))

\* s.split(sep) for a one-symbol separator
RECURSIVE split(_, _)
split(s, sep) ==
    LET at == {i \in 1..Len(s) : s[i] = sep}
    IN  IF at = {} THEN <<s>>
        ELSE <<SubSeq(s, 1, Min(at) - 1)>>
             \o split(SubSeq(s, Min(at) + 1, Len(s)), sep)

\* [p.strip() for p in parts if p.strip()]
RECURSIVE SelectNonBlank(_)
SelectNonBlank(parts) ==
    IF parts = <<>> THEN <<>>
    ELSE (IF strip(parts[1]) # <<>> THEN <<strip(parts[1])>> ELSE <<>>)
         \o SelectNonBlank(Tail(parts))

\* all sequences over S of length at most n
SeqUpTo(S, n) == UNION {[1..k -> S] : k \in 0..n}

\* ------------------------------------------------------------ URLs
Schemes == {"https://"}
\* host names as typed; urlparse(...).hostname is the lower-cased host
Hosts == {"youtu.be", "www.youtu.be", "youtube.com", "www.youtube.com",
          "example.com", "YOUTU.BE"}
Lower(sym) == IF sym = "YOUTU.BE" THEN "youtu.be" ELSE sym

\* needle in sym, for the units of this model
SymContains(sym, needle) ==
    \/ needle = "youtube.com" /\ sym \in {"youtube.com", "www.youtube.com"}
    \/ needle = "youtu.be" /\ sym \in {"youtu.be", "www.youtu.be"}

\* Python's   needle in s
Contains(s, needle) == \E i \in 1..Len(s) : SymContains(s[i], needle)

Paths == {<<>>, <<"/">>, <<"/", "watch">>, <<"/", "abc">>, <<"/", "youtu.be">>}
\* key=value fields of a query string: 'v' empty, 'v' set, another key
Fields == {<<"v", "=">>, <<"v", "=", "id1">>, <<"t", "=", "id2">>}
Queries == SeqUpTo(Fields, MaxParams)

\* the text of a URL with these parts
BuildUrl(scheme, host, path, fields) ==
    <<scheme, host>> \o path
    \o (IF fields = <<>> THEN <<>> ELSE <<"?">> \o join(<<"&">>, fields))

WellFormedUrls ==
    {BuildUrl(s, h, p, q) : s \in Schemes, h \in Hosts, p \in Paths, q \in Queries}

\* what a user can also type: nothing, blanks, text that is no URL
OtherInputs ==
    { <<>>, <<" ">>, <<" ", " ">>, <<"youtu.be">>, <<"example.com", "/", "abc">>,
      <<"https://", "example.com", " ", "abc">>, <<" ", "https://", "youtu.be">> }

Inputs == WellFormedUrls \cup OtherInputs

\* validators.url(value): a scheme, a host, and no whitespace anywhere
validators_url(url) ==
    /\ Len(url) >= 2
    /\ url[1] \in Schemes
    /\ url[2] \in Hosts
    /\ \A i \in 1..Len(url) : url[i] # " "

\* the prefix of s before the first symbol of Stops
UpTo(s, Stops) ==
    LET at == {i \in 1..Len(s) : s[i] \in Stops}
    IN  IF at = {} THEN s ELSE SubSeq(s, 1, Min(at) - 1)

\* the rest of s after the first symbol sep, <<>> when there is none
After(s, sep) ==
    LET at == {i \in 1..Len(s) : s[i] = sep}
    IN  IF at = {} THEN <<>> ELSE SubSeq(s, Min(at) + 1, Len(s))

\* urllib.parse.urlparse(url): hostname (None without '//'), path, query
urlparse(url) ==
    LET hasNetloc == Len(url) >= 1 /\ url[1] \in Schemes
        rest == IF hasNetloc THEN Tail(url) ELSE url
        netloc == IF hasNetloc THEN UpTo(rest, {"/", "?", "#"}) ELSE <<>>
        afterNetloc == SubSeq(rest, Len(netloc) + 1, Len(rest))
        noFragment == UpTo(afterNetloc, {"#"})
    IN  [hostname |-> IF netloc = <<>> THEN None ELSE <<Lower(netloc[1])>>,
         path |-> UpTo(noFragment, {"?"}),
         query |-> After(noFragment, "?")]

\* urllib.parse.parse_qs(qs): name -> list of values, in order of appearance;
\* keep_blank_values is False, so a field with an empty value is dropped, and
\* strict_parsing is False, so a field without '=' is dropped as well
RECURSIVE parse_qsl(_)
parse_qsl(fields) ==
    IF fields = <<>> THEN <<>>
    ELSE LET f == fields[1]
             name == UpTo(f, {"="})
             value == After(f, "=")
         IN  (IF value # <<>> THEN <<[name |-> name, value |-> value]>> ELSE <<>>)
             \o parse_qsl(Tail(fields))

RECURSIVE ValuesOf(_, _)
ValuesOf(pairs, name) ==
    IF pairs = <<>> THEN <<>>
    ELSE (IF pairs[1].name = name THEN <<pairs[1].value>> ELSE <<>>)
         \o ValuesOf(Tail(pairs), name)

parse_qs(qs) ==
    LET pairs == parse_qsl(IF qs = <<>> THEN <<>> ELSE split(qs, "&"))
    IN  [name \in {pairs[i].name : i \in 1..Len(pairs)} |-> ValuesOf(pairs, name)]

\* mutant: the video ID taken from 'v' whatever the path is
get_youtube_id_any_path(url) ==
    LET parsed_url == urlparse(url)
        qs == parse_qs(parsed_url.query)
    IN  IF parsed_url.hostname \in {<<"youtu.be">>, <<"www.youtu.be">>}
        THEN SubSeq(parsed_url.path, 2, Len(parsed_url.path))
        ELSE IF /\ parsed_url.hostname \in {<<"youtube.com">>, <<"www.youtube.com">>}
                /\ <<"v">> \in DOMAIN qs
        THEN qs[<<"v">>][1]
        ELSE None

\* "Extract YouTube video ID from URL"
get_youtube_id(url) ==
    LET parsed_url == urlparse(url)
        qs == parse_qs(parsed_url.query)
    IN  IF parsed_url.hostname \in {<<"youtu.be">>, <<"www.youtu.be">>}
        THEN SubSeq(parsed_url.path, 2, Len(parsed_url.path))
        ELSE IF /\ parsed_url.hostname \in {<<"youtube.com">>, <<"www.youtube.com">>}
                /\ parsed_url.path = <<"/", "watch">>
                /\ <<"v">> \in DOMAIN qs
        THEN qs[<<"v">>][1]
        ELSE None

\* ------------------------------------------------ external services
\* str(e) of an exception raised by a library call
Messages == {<<>>, <<"boom">>}
NoExc == [type |-> "None", msg |-> <<>>]
Raised(type, msg) == [type |-> type, msg |-> msg]

\* an  except <class>:  clause catches e; every class here derives from Exception
Catches(class, e) == class = "Exception" \/ e.type = class

\* the transcripts YouTube can hold for a video
NoTranscript == [language_code |-> "None", is_generated |-> FALSE]
Transcripts == [language_code : {"en", "fr"}, is_generated : BOOLEAN]

\* the text segments a transcript fetch returns
SegmentTexts == {<<>>, <<"a">>}
Fetched == SeqUpTo(SegmentTexts, MaxSegments)

\* the <p>/<h1>..<h6> texts of a fetched page, and whether the page has a
\* main / article / div.content / body element
ParagraphTexts == {<<" ">>, <<"a">>, <<" ", "a">>}
Pages == [main_content : BOOLEAN, paragraphs : SeqUpTo(ParagraphTexts, MaxParagraphs)]

\* what the chat-completion model answers
Summaries == {<<>>, <<"s">>}

\* ------------------------------------------------------------- state
VARIABLES
    generic_url,      \* the text of the URL input
    pc,               \* where the script run is; "idle" between runs
    llm_cache,        \* st.cache_resource's entry for get_llm (0: empty)
    llm_created,      \* ChatGroq clients constructed so far
    llm,              \* the client this run uses (0: none yet)
    video_id,         \* summarize_content: get_youtube_id's result
    transcript_list,  \* get_youtube_transcript: the listed transcripts
    transcript,       \* get_youtube_transcript: the transcript found
    content,          \* the extractor's return value (transcript / text)
    docs,             \* summarize_content: the documents for the chain
    summary,          \* summarize_content's first return value
    error,            \* summarize_content's second return value
    exc,              \* the exception being propagated, NoExc if none
    shown,            \* what the run rendered: st.error/warning/success
    trace             \* the stages this run went through, in order

vars == <<generic_url, pc, llm_cache, llm_created, llm, video_id, transcript_list,
          transcript, content, docs, summary, error, exc, shown, trace>>

Show(kind, text) == Append(shown, [kind |-> kind, text |-> text])

Init ==
    /\ generic_url = <<>>
    /\ pc = "idle"
    /\ llm_cache = 0
    /\ llm_created = 0
    /\ llm = 0
    /\ video_id = None
    /\ transcript_list = {}
    /\ transcript = NoTranscript
    /\ content = None
    /\ docs = <<>>
    /\ summary = None
    /\ error = None
    /\ exc = NoExc
    /\ shown = <<>>
    /\ trace = <<>>

\* ------------------------------------------------------ a script run
\* mutant: get_llm without the resource cache, a new client in every run
get_llm_uncached == llm_created + 1

\* @st.cache_resource get_llm(): the cached client, constructed on a miss
get_llm == IF llm_cache = 0 THEN llm_created + 1 ELSE llm_cache

\* Streamlit runs the script top to bottom for every interaction (an edit of
\* the URL input, a click): the names of the previous run are gone and the
\* page is rendered anew; only the widget's text and the resource cache stay
Rerun ==
    /\ pc = "idle"
    /\ pc' = "top"
    /\ llm' = 0
    /\ video_id' = None
    /\ transcript_list' = {}
    /\ transcript' = NoTranscript
    /\ content' = None
    /\ docs' = <<>>
    /\ summary' = None
    /\ error' = None
    /\ exc' = NoExc
    /\ shown' = <<>>
    /\ trace' = <<>>
    /\ UNCHANGED <<generic_url, llm_cache, llm_created>>

\* generic_url = st.text_input(...); llm = get_llm(); if st.button(...):
\* the text is what the user typed, the button is True in the run a click started
ScriptTop ==
    /\ pc = "top"
    /\ \E url \in Inputs, button \in BOOLEAN :
         /\ generic_url' = url
         /\ pc' = IF button THEN "button" ELSE "idle"
    /\ llm' = get_llm
    /\ llm_cache' = llm'
    /\ llm_created' = IF llm' > llm_created THEN llm' ELSE llm_created
    /\ UNCHANGED <<video_id, transcript_list, transcript, content, docs, summary,
                   error, exc, shown, trace>>

\* the messages of the button handler
MsgNoUrl == <<"Please provide a URL to get started">>
MsgInvalidUrl == <<"Please enter a valid URL (YouTube video or website)">>

\* if st.button(...): the two checks before summarize_content is called
ButtonHandler ==
    /\ pc = "button"
    /\ trace' = Append(trace, "validate")
    /\ IF strip(generic_url) = <<>>
       THEN shown' = Show("error", MsgNoUrl) /\ pc' = "idle"
       ELSE IF ~validators_url(generic_url)
       THEN shown' = Show("error", MsgInvalidUrl) /\ pc' = "idle"
       ELSE shown' = shown /\ pc' = "summarize"
    /\ UNCHANGED <<generic_url, llm_cache, llm_created, llm, video_id, transcript_list,
                   transcript, content, docs, summary, error, exc>>

\* mutant: the extractor chosen by the parsed host name
IsYoutubeHost(url) ==
    urlparse(url).hostname \in
        {<<"youtu.be">>, <<"www.youtu.be">>, <<"youtube.com">>, <<"www.youtube.com">>}

\* summarize_content: which extractor handles the URL
IsYoutubeUrl(url) == Contains(url, "youtube.com") \/ Contains(url, "youtu.be")

MsgNoVideoId == <<"Could not extract YouTube video ID from URL">>
MsgNoTranscript ==
    <<"Could not extract transcript from YouTube video. The video might not have subtitles enabled.">>
MsgNoText ==
    <<"No content could be extracted from the URL. The page might be protected or require authentication.">>
MsgNoContent == <<"No content could be extracted from the URL">>

\* summarize_content, up to the call of an extractor
Dispatch ==
    /\ pc = "summarize"
    /\ IF IsYoutubeUrl(generic_url)
       THEN /\ video_id' = get_youtube_id(generic_url)
            /\ trace' = Append(trace, "get_youtube_id")
            /\ IF ~Truthy(video_id')
               THEN summary' = None /\ error' = MsgNoVideoId /\ pc' = "render"
               ELSE UNCHANGED <<summary, error>> /\ pc' = "yt_direct"
       ELSE /\ pc' = "web"
            /\ UNCHANGED <<video_id, trace, summary, error>>
    /\ UNCHANGED <<generic_url, llm_cache, llm_created, llm, transcript_list,
                   transcript, content, docs, exc, shown>>

\* ------------------------------------------------ exception handlers
\* the class each  except  clause names
ExceptDirect == "Exception"
ExceptFindEnglish == "NoTranscriptFound"
ExceptFindManual == "NoTranscriptFound"
ExceptValues == "Exception"
ExceptTranslate == "Exception"
ExceptTranscript == "Exception"
ExceptWeb == "Exception"
\* mutant: summarize_content catching one class of exception only
ExceptSummarizeNarrow == "NoTranscriptFound"
ExceptSummarize == "Exception"

\* where control goes when e is raised inside the try blocks of `chain`
\* (innermost first); "idle" when no clause catches it: the exception leaves
\* the script and the run ends
RECURSIVE HandlerPc(_, _)
HandlerPc(e, chain) ==
    IF chain = <<>> THEN "idle"
    ELSE IF Catches(chain[1].class, e) THEN chain[1].at
    ELSE HandlerPc(e, Tail(chain))

\* mutant: a failure in summarize_content starts the function again
InSummarizeRetry == <<[class |-> "Exception", at |-> "summarize"]>>
InSummarize == <<[class |-> ExceptSummarize, at |-> "sum_except"]>>
InTranscript == <<[class |-> ExceptTranscript, at |-> "yt_except"]>> \o InSummarize
InWeb == <<[class |-> ExceptWeb, at |-> "web_except"]>> \o InSummarize

\* what a call to the transcript library or to requests can raise
LibraryErrors == {Raised(t, m) : t \in {"Exception", "NoTranscriptFound"}, m \in Messages}

\* ------------------------------------------- get_youtube_transcript
\* YouTubeTranscriptApi.get_transcript(video_id), inside the inner try
DirectTranscript ==
    /\ pc = "yt_direct"
    /\ trace' = Append(trace, "get_transcript")
    /\ \/ \E segs \in Fetched :
            /\ content' = join(<<" ">>, segs)
            /\ pc' = "yt_return"
            /\ exc' = exc
       \/ \E e \in LibraryErrors :
            IF Catches(ExceptDirect, e)
            THEN content' = content /\ pc' = "yt_list" /\ exc' = exc
            ELSE content' = content /\ pc' = HandlerPc(e, InTranscript) /\ exc' = e
    /\ UNCHANGED <<generic_url, llm_cache, llm_created, llm, video_id, transcript_list,
                   transcript, docs, summary, error, shown>>

\* YouTubeTranscriptApi.list_transcripts(video_id); transcript = None
ListTranscripts ==
    /\ pc = "yt_list"
    /\ trace' = Append(trace, "list_transcripts")
    /\ \/ \E available \in SUBSET Transcripts :
            /\ transcript_list' = available
            /\ pc' = "yt_find_en"
            /\ exc' = exc
       \/ \E e \in LibraryErrors :
            /\ transcript_list' = transcript_list
            /\ pc' = HandlerPc(e, InTranscript)
            /\ exc' = e
    /\ transcript' = NoTranscript
    /\ UNCHANGED <<generic_url, llm_cache, llm_created, llm, video_id, content,
                   docs, summary, error, shown>>

\* TranscriptList.find_transcript(codes): the manually created transcript in
\* one of the languages, else the generated one, else NoTranscriptFound
find_transcript(list, codes) ==
    LET manual == {t \in list : t.language_code \in codes /\ ~t.is_generated}
        generated == {t \in list : t.language_code \in codes /\ t.is_generated}
    IN  IF manual # {} THEN CHOOSE t \in manual : TRUE
        ELSE IF generated # {} THEN CHOOSE t \in generated : TRUE
        ELSE NoTranscript

\* try: transcript = transcript_list.find_transcript(['en'])
FindEnglish ==
    /\ pc = "yt_find_en"
    /\ trace' = Append(trace, "find_transcript")
    /\ LET found == find_transcript(transcript_list, {"en"})
           e == Raised("NoTranscriptFound", <<"boom">>)
       IN  IF found # NoTranscript
           THEN transcript' = found /\ pc' = "yt_find_manual" /\ exc' = exc
           ELSE IF Catches(ExceptFindEnglish, e)
           THEN transcript' = transcript /\ pc' = "yt_find_manual" /\ exc' = exc
           ELSE transcript' = transcript /\ pc' = HandlerPc(e, InTranscript) /\ exc' = e
    /\ UNCHANGED <<generic_url, llm_cache, llm_created, llm, video_id, transcript_list,
                   content, docs, summary, error, shown>>

\* what find_manually_created_transcript() does when called with no language
\* codes: the library declares the parameter without a default, so the call
\* raises TypeError; a build that accepted the call would answer with a
\* manually created transcript or with NoTranscriptFound
ManualOutcomes(list) ==
    {[ok |-> FALSE, transcript |-> NoTranscript, e |-> Raised("TypeError", <<"boom">>)]}
    \cup {[ok |-> TRUE, transcript |-> t, e |-> NoExc] : t \in {x \in list : ~x.is_generated}}
    \cup (IF \E x \in list : ~x.is_generated THEN {}
          ELSE {[ok |-> FALSE, transcript |-> NoTranscript,
                 e |-> Raised("NoTranscriptFound", <<"boom">>)]})

\* if not transcript: try: transcript = ...find_manually_created_transcript()
FindManual ==
    /\ pc = "yt_find_manual"
    /\ IF transcript # NoTranscript
       THEN /\ pc' = "yt_find_any"
            /\ UNCHANGED <<transcript, exc, trace>>
       ELSE /\ trace' = Append(trace, "find_manually_created_transcript")
            /\ \E r \in ManualOutcomes(transcript_list) :
                 IF r.ok
                 THEN transcript' = r.transcript /\ pc' = "yt_find_any" /\ exc' = exc
                 ELSE IF Catches(ExceptFindManual, r.e)
                 THEN transcript' = transcript /\ pc' = "yt_find_any" /\ exc' = exc
                 ELSE /\ transcript' = transcript
                      /\ pc' = HandlerPc(r.e, InTranscript)
                      /\ exc' = r.e
    /\ UNCHANGED <<generic_url, llm_cache, llm_created, llm, video_id, transcript_list,
                   content, docs, summary, error, shown>>

\* if not transcript: try: list(transcript_list.transcripts.values())[0];
\* the attribute lookup can raise, and the order of the values is the library's
FindAny ==
    /\ pc = "yt_find_any"
    /\ IF transcript # NoTranscript
       THEN /\ pc' = "yt_have"
            /\ UNCHANGED <<transcript, exc, trace>>
       ELSE /\ trace' = Append(trace, "transcripts.values")
            /\ \/ \E e \in {Raised("AttributeError", <<"boom">>)} :
                    IF Catches(ExceptValues, e)
                    THEN transcript' = transcript /\ pc' = "yt_have" /\ exc' = exc
                    ELSE /\ transcript' = transcript
                         /\ pc' = HandlerPc(e, InTranscript)
                         /\ exc' = e
               \/ /\ transcript_list = {}
                  /\ transcript' = transcript /\ pc' = "yt_have" /\ exc' = exc
               \/ \E first \in transcript_list :
                    transcript' = first /\ pc' = "yt_have" /\ exc' = exc
    /\ UNCHANGED <<generic_url, llm_cache, llm_created, llm, video_id, transcript_list,
                   content, docs, summary, error, shown>>

MsgGiveUp == <<"No transcript found after trying all methods">>
MsgTranslate(e) == <<"Could not translate transcript to English: ">> \o e.msg

\* if transcript: translate to English if needed; else raise Exception(...)
Translate ==
    /\ pc = "yt_have"
    /\ IF transcript = NoTranscript
       THEN /\ exc' = Raised("Exception", MsgGiveUp)
            /\ pc' = HandlerPc(exc', InTranscript)
            /\ UNCHANGED <<transcript, shown, trace>>
       ELSE IF transcript.language_code = "en"
       THEN /\ pc' = "yt_fetch"
            /\ UNCHANGED <<transcript, shown, trace, exc>>
       ELSE /\ trace' = Append(trace, "translate")
            /\ \/ /\ transcript' = [transcript EXCEPT !.language_code = "en"]
                  /\ pc' = "yt_fetch"
                  /\ UNCHANGED <<shown, exc>>
               \/ \E e \in LibraryErrors :
                    IF Catches(ExceptTranslate, e)
                    THEN /\ shown' = Show("warning", MsgTranslate(e))
                         /\ pc' = "yt_fetch"
                         /\ UNCHANGED <<transcript, exc>>
                    ELSE /\ exc' = e
                         /\ pc' = HandlerPc(e, InTranscript)
                         /\ UNCHANGED <<transcript, shown>>
    /\ UNCHANGED <<generic_url, llm_cache, llm_created, llm, video_id, transcript_list,
                   content, docs, summary, error>>

\* transcript_text = ' '.join([t['text'] for t in transcript.fetch()])
FetchTranscript ==
    /\ pc = "yt_fetch"
    /\ trace' = Append(trace, "fetch")
    /\ \/ \E segs \in Fetched :
            /\ content' = join(<<" ">>, segs)
            /\ pc' = "yt_return"
            /\ exc' = exc
       \/ \E e \in LibraryErrors :
            /\ content' = content
            /\ pc' = HandlerPc(e, InTranscript)
            /\ exc' = e
    /\ UNCHANGED <<generic_url, llm_cache, llm_created, llm, video_id, transcript_list,
                   transcript, docs, summary, error, shown>>

MsgTranscriptError(e) ==
    <<"Could not extract transcript: ">> \o e.msg \o <<" This might be due to: ...">>

\* except Exception as e: st.error(detailed_error); return None
TranscriptExcept ==
    /\ pc = "yt_except"
    /\ shown' = Show("error", MsgTranscriptError(exc))
    /\ content' = None
    /\ exc' = NoExc
    /\ pc' = "yt_return"
    /\ UNCHANGED <<generic_url, llm_cache, llm_created, llm, video_id, transcript_list,
                   transcript, docs, summary, error, trace>>

\* -------------------------------------------- extract_text_from_url
\* the text extract_text_from_url builds from the page: the stripped,
\* non-blank paragraph texts joined by ' ' (the same in both branches)
PageText(page) == join(<<" ">>, SelectNonBlank(page.paragraphs))

\* return text if text.strip() else None
TextOrNone(text) == IF strip(text) # <<>> THEN text ELSE None

\* requests.get, raise_for_status, BeautifulSoup, the paragraphs' text
ExtractText ==
    /\ pc = "web"
    /\ trace' = Append(trace, "requests.get")
    /\ \/ \E page \in Pages :
            /\ content' = TextOrNone(PageText(page))
            /\ pc' = "web_return"
            /\ exc' = exc
       \/ \E e \in LibraryErrors :
            /\ content' = content
            /\ pc' = HandlerPc(e, InWeb)
            /\ exc' = e
    /\ UNCHANGED <<generic_url, llm_cache, llm_created, llm, video_id, transcript_list,
                   transcript, docs, summary, error, shown>>

MsgWebError(e) == <<"Web extraction error: ">> \o e.msg

\* except Exception as e: st.error(...); return None
WebExcept ==
    /\ pc = "web_except"
    /\ shown' = Show("error", MsgWebError(exc))
    /\ content' = None
    /\ exc' = NoExc
    /\ pc' = "web_return"
    /\ UNCHANGED <<generic_url, llm_cache, llm_created, llm, video_id, transcript_list,
                   transcript, docs, summary, error, trace>>

\* ------------------------------------- summarize_content, continued
\* the extractor returned: if not transcript / if not text, else the document
ExtractorReturn ==
    /\ pc \in {"yt_return", "web_return"}
    /\ IF ~Truthy(content)
       THEN /\ summary' = None
            /\ error' = IF pc = "yt_return" THEN MsgNoTranscript ELSE MsgNoText
            /\ docs' = docs
            /\ pc' = "render"
       ELSE /\ docs' = <<[page_content |-> content]>>
            /\ pc' = "check"
            /\ UNCHANGED <<summary, error>>
    /\ UNCHANGED <<generic_url, llm_cache, llm_created, llm, video_id, transcript_list,
                   transcript, content, exc, shown, trace>>

\* mutant: the check of the documents without .strip()
DocsEmptyNoStrip(d) == d = <<>>

\* not docs or not docs[0].page_content.strip()
DocsEmpty(d) == d = <<>> \/ strip(d[1].page_content) = <<>>

CheckDocs ==
    /\ pc = "check"
    /\ IF DocsEmpty(docs)
       THEN summary' = None /\ error' = MsgNoContent /\ pc' = "render"
       ELSE UNCHANGED <<summary, error>> /\ pc' = "chain"
    /\ UNCHANGED <<generic_url, llm_cache, llm_created, llm, video_id, transcript_list,
                   transcript, content, docs, exc, shown, trace>>

\* LLMChain, StuffDocumentsChain, stuff_chain.run(docs): the model call
RunChain ==
    /\ pc = "chain"
    /\ trace' = Append(trace, "llm")
    /\ \/ \E s \in Summaries :
            /\ summary' = s
            /\ error' = None
            /\ pc' = "render"
            /\ exc' = exc
       \/ \E e \in LibraryErrors :
            /\ UNCHANGED <<summary, error>>
            /\ pc' = HandlerPc(e, InSummarize)
            /\ exc' = e
    /\ UNCHANGED <<generic_url, llm_cache, llm_created, llm, video_id, transcript_list,
                   transcript, content, docs, shown>>

\* mutant: the error string without its fixed prefix
ErrorTextBare(e) == e.msg

\* f"Error processing content: {str(e)}"
ErrorText(e) == <<"Error processing content: ">> \o e.msg

\* except Exception as e: return None, f"Error processing content: ..."
SummarizeExcept ==
    /\ pc = "sum_except"
    /\ summary' = None
    /\ error' = ErrorText(exc)
    /\ exc' = NoExc
    /\ pc' = "render"
    /\ UNCHANGED <<generic_url, llm_cache, llm_created, llm, video_id, transcript_list,
                   transcript, content, docs, shown, trace>>

\* if error: st.error(error) else: st.success(summary)
Render ==
    /\ pc = "render"
    /\ trace' = Append(trace, "render")
    /\ shown' = IF Truthy(error) THEN Show("error", error) ELSE Show("success", summary)
    /\ pc' = "idle"
    /\ UNCHANGED <<generic_url, llm_cache, llm_created, llm, video_id, transcript_list,
                   transcript, content, docs, summary, error, exc>>

Next ==
    \/ Rerun
    \/ ScriptTop
    \/ ButtonHandler
    \/ Dispatch
    \/ DirectTranscript
    \/ ListTranscripts
    \/ FindEnglish
    \/ FindManual
    \/ FindAny
    \/ Translate
    \/ FetchTranscript
    \/ TranscriptExcept
    \/ ExtractText
    \/ WebExcept
    \/ ExtractorReturn
    \/ CheckDocs
    \/ RunChain
    \/ SummarizeExcept
    \/ Render

Spec == Init /\ [][Next]_vars

\* ============================================================ claims
Range(q) == {q[i] : i \in 1..Len(q)}
Blank(q) == \A i \in 1..Len(q) : q[i] = " "
Last(q) == q[Len(q)]
TranscriptStages ==
    {"get_transcript", "list_transcripts", "find_transcript",
     "find_manually_created_transcript", "transcripts.values", "translate", "fetch"}
YoutubeStages == {"get_youtube_id"} \cup TranscriptStages
TranscriptPcs ==
    {"yt_direct", "yt_list", "yt_find_en", "yt_find_manual", "yt_find_any",
     "yt_have", "yt_fetch"}
\* the run is past summarize_content's return
Returned == pc = "render" \/ (pc = "idle" /\ "render" \in Range(trace))

\* C1 as stated: no run ends with an exception still propagating; whenever
\* a call to the transcript library has failed (the direct fetch did, so the
\* transcripts were listed; the translation did, so a warning is shown),
\* get_youtube_transcript returns None after showing an error; a failed page
\* fetch or model call ends in None with an error shown, resp. in
\* (None, non-empty error string).
C1_EveryFailureReturnsNone ==
    /\ pc = "idle" => exc = NoExc
    /\ (pc = "yt_return" /\ ( \/ "list_transcripts" \in Range(trace)
                              \/ \E i \in 1..Len(shown) : shown[i].kind = "warning" )) =>
          /\ content = None
          /\ shown # <<>>
          /\ Last(shown).kind = "error"
    /\ (pc = "web_return" /\ shown # <<>>) => content = None /\ Last(shown).kind = "error"
    /\ (pc = "render" /\ "llm" \in Range(trace) /\ summary = None) =>
          error # None /\ Len(error) > 0

\* C1 amended: a failure never leaves a function as an exception.  An
\* exception of a library call is either absorbed inside
\* get_youtube_transcript (a failed direct fetch goes on to the listed
\* transcripts, a failed translation shows a warning and keeps the
\* transcript), or it lands in the handler of the function it was raised in:
\* the handlers of get_youtube_transcript and extract_text_from_url show an
\* error and return None, the handler of summarize_content returns
\* (None, non-empty error string); no run ends with an exception propagating.
C1_FailuresSurfaced ==
    [][ /\ (exc' # NoExc /\ exc = NoExc /\ pc \in TranscriptPcs => pc' = "yt_except")
        /\ (exc' # NoExc /\ exc = NoExc /\ pc = "web" => pc' = "web_except")
        /\ (exc' # NoExc /\ exc = NoExc /\ pc = "chain" => pc' = "sum_except")
        /\ (exc' # NoExc => pc' \in {"yt_except", "web_except", "sum_except"})
        /\ (pc \in {"yt_except", "web_except"} =>
              /\ content' = None
              /\ exc' = NoExc
              /\ Len(shown') = Len(shown) + 1
              /\ Last(shown').kind = "error"
              /\ Len(Last(shown').text) > 0
              /\ pc' \in {"yt_return", "web_return"})
        /\ (pc = "sum_except" =>
              /\ summary' = None
              /\ error' # None
              /\ Len(error') > 0
              /\ exc' = NoExc
              /\ pc' = "render")
      ]_vars

\* C1 witness: the model call failed with an empty message and the failure
\* came back from summarize_content as (None, error string)
C1_Witness ==
    /\ pc = "render"
    /\ "llm" \in Range(trace)
    /\ summary = None
    /\ error = <<"Error processing content: ">>
    /\ exc = NoExc

\* the place of a stage in the pipeline
Rank(stage) ==
    CASE stage = "validate" -> 1
      [] stage = "get_youtube_id" -> 2
      [] stage = "get_transcript" -> 3
      [] stage = "requests.get" -> 3
      [] stage = "list_transcripts" -> 4
      [] stage = "find_transcript" -> 5
      [] stage = "find_manually_created_transcript" -> 6
      [] stage = "transcripts.values" -> 7
      [] stage = "translate" -> 8
      [] stage = "fetch" -> 9
      [] stage = "llm" -> 10
      [] stage = "render" -> 11

\* C2: within one click the stages run in the order validate, extract, model
\* call, render, none of them twice; the model is called only for a URL that
\* passed validation and after an extractor returned content; a result is
\* rendered only after summarize_content has produced it, and ends the run.
C2_LinearPipeline ==
    /\ \A i, j \in 1..Len(trace) : i < j => Rank(trace[i]) < Rank(trace[j])
    /\ trace # <<>> => trace[1] = "validate"
    /\ "llm" \in Range(trace) =>
          /\ generic_url \in WellFormedUrls
          /\ Range(trace) \cap {"get_transcript", "fetch", "requests.get"} # {}
          /\ Truthy(content)
          /\ docs = <<[page_content |-> content]>>
    /\ "render" \in Range(trace) =>
          /\ pc = "idle"
          /\ summary # None \/ error # None
          /\ exc = NoExc

\* C2 witness: a click went through validation, the web extractor, the model
\* call and the rendering of the summary
C2_Witness ==
    /\ pc = "idle"
    /\ trace = <<"validate", "requests.get", "llm", "render">>
    /\ Last(shown).kind = "success"

\* C3: a click with an empty or whitespace-only URL shows 'Please provide a
\* URL to get started', a click with a non-blank URL that is no valid URL
\* shows 'Please enter a valid URL (YouTube video or website)', and in both
\* cases summarize_content is not entered: no stage but the validation runs.
C3_InvalidUrlRejected ==
    /\ pc \notin {"idle", "top", "button"} => generic_url \in WellFormedUrls
    /\ (pc = "idle" /\ trace # <<>> /\ Blank(generic_url)) =>
          /\ shown = <<[kind |-> "error", text |-> <<"Please provide a URL to get started">>]>>
          /\ trace = <<"validate">>
    /\ (pc = "idle" /\ trace # <<>> /\ ~Blank(generic_url)
                    /\ generic_url \notin WellFormedUrls) =>
          /\ shown = <<[kind |-> "error",
                        text |-> <<"Please enter a valid URL (YouTube video or website)">>]>>
          /\ trace = <<"validate">>

\* C3 witness: a click with a whitespace-only URL has been answered
C3_Witness ==
    /\ pc = "idle"
    /\ generic_url = <<" ", " ">>
    /\ trace = <<"validate">>
    /\ Len(shown) = 1

\* C4: requests share no mutable state but the cached model client.  Every
\* run starts from the same cleared state whatever the earlier runs did, so
\* its outcome is decided by its URL and the services' answers alone; the
\* client is constructed once, and no step of a request changes the cache
\* entry, the client in use, or the URL.
C4_NoSharedState ==
    [][ /\ (llm_cache # 0 => llm_cache' = llm_cache /\ llm_created' = llm_created)
        /\ llm_created' <= 1
        /\ (pc \notin {"idle", "top"} =>
              generic_url' = generic_url /\ llm' = llm /\ llm = llm_cache)
        /\ (pc' = "top" =>
              /\ video_id' = None /\ transcript_list' = {} /\ transcript' = NoTranscript
              /\ content' = None /\ docs' = <<>> /\ summary' = None /\ error' = None
              /\ exc' = NoExc /\ shown' = <<>> /\ trace' = <<>> /\ llm' = 0)
        /\ (pc' = "button" =>
              /\ llm' = 1 /\ llm_cache' = 1
              /\ UNCHANGED <<video_id, transcript_list, transcript, content, docs,
                             summary, error, exc, shown, trace>>)
      ]_vars

\* C4 witness: a run starts after an earlier request left its URL in the
\* input and the client in the cache
C4_Witness ==
    /\ pc = "top"
    /\ llm_cache = 1
    /\ Contains(generic_url, "youtu.be")
    /\ trace = <<>>

\* Python's   'youtube.com' in url or 'youtu.be' in url
MentionsYoutube(url) == Contains(url, "youtube.com") \/ Contains(url, "youtu.be")

\* C5: a URL that contains 'youtube.com' or 'youtu.be' anywhere is handled by
\* the YouTube path only: the website extractor is never called for it, and
\* without a video ID or without a transcript the request ends with the
\* matching error and no model call; every other URL is handled by the
\* website extractor only.
C5_ExtractorChoice ==
    /\ MentionsYoutube(generic_url) => "requests.get" \notin Range(trace)
    /\ ~MentionsYoutube(generic_url) => Range(trace) \cap YoutubeStages = {}
    /\ (pc \notin {"idle", "top", "button", "summarize"} /\ MentionsYoutube(generic_url)) =>
          "get_youtube_id" \in Range(trace)
    /\ (pc \in {"web", "web_except", "web_return"}) => ~MentionsYoutube(generic_url)
    /\ ("get_youtube_id" \in Range(trace) /\ ~Truthy(video_id)) =>
          /\ Returned
          /\ summary = None
          /\ error = <<"Could not extract YouTube video ID from URL">>
          /\ Range(trace) \cap (TranscriptStages \cup {"llm"}) = {}
    /\ ("get_youtube_id" \in Range(trace) /\ Truthy(video_id) /\ Returned
                                          /\ ~Truthy(content)) =>
          /\ summary = None
          /\ error = <<"Could not extract transcript from YouTube video. The video might not have subtitles enabled.">>
          /\ "llm" \notin Range(trace)

\* C5 witness: a URL of another site that mentions youtu.be in its path went
\* down the YouTube path and ended without a video ID
C5_Witness ==
    /\ pc = "idle"
    /\ generic_url = <<"https://", "example.com", "/", "youtu.be">>
    /\ trace = <<"validate", "get_youtube_id", "render">>
    /\ error = MsgNoVideoId

\* the values of the fields named `name` in a query string, blank ones too
RECURSIVE RawValues(_, _)
RawValues(fields, name) ==
    IF fields = <<>> THEN <<>>
    ELSE (IF UpTo(fields[1], {"="}) = name /\ "=" \in Range(fields[1])
          THEN <<After(fields[1], "=")>> ELSE <<>>)
         \o RawValues(Tail(fields), name)

RECURSIVE NonEmpty(_)
NonEmpty(values) ==
    IF values = <<>> THEN <<>>
    ELSE (IF values[1] # <<>> THEN <<values[1]>> ELSE <<>>) \o NonEmpty(Tail(values))

\* the video ID by the rule of C6, given the values that count for 'v'
VideoIdByRule(url, vs) ==
    LET u == urlparse(url)
    IN  IF u.hostname \in {<<"youtu.be">>, <<"www.youtu.be">>}
        THEN (IF u.path # <<>> /\ u.path[1] = "/" THEN Tail(u.path) ELSE u.path)
        ELSE IF u.hostname \in {<<"youtube.com">>, <<"www.youtube.com">>}
                /\ u.path = <<"/", "watch">>
        THEN (IF vs = <<>> THEN None ELSE vs[1])
        ELSE None

VValues(url) ==
    LET q == urlparse(url).query
    IN  RawValues(IF q = <<>> THEN <<>> ELSE split(q, "&"), <<"v">>)

\* C6 as stated: for youtu.be hosts the path without its leading '/', for
\* youtube.com hosts with path '/watch' the first value of 'v' (None when
\* 'v' is absent), for every other host or path None.
C6_FirstValueOfV ==
    "get_youtube_id" \in Range(trace) =>
        video_id = VideoIdByRule(generic_url, VValues(generic_url))

\* C6 amended: as C6, with the first non-empty value of 'v', and None when
\* 'v' is absent or has only empty values.
C6_FirstNonEmptyValueOfV ==
    "get_youtube_id" \in Range(trace) =>
        video_id = VideoIdByRule(generic_url, NonEmpty(VValues(generic_url)))

\* C6 witness: the ID of a watch URL whose first 'v' is empty and whose
\* second 'v' is not
C6_Witness ==
    /\ "get_youtube_id" \in Range(trace)
    /\ generic_url = <<"https://", "www.youtube.com", "/", "watch", "?",
                       "v", "=", "&", "v", "=", "id1">>
    /\ video_id = <<"id1">>

\* C7 as stated: the transcript sources are tried in the order direct fetch,
\* English, manually created, first available, each only when the one before
\* gave nothing; the function gives up with 'No transcript found after
\* trying all methods' only when all of them gave nothing; and when the
\* video has any transcript, the function returns a transcript's text.
C7_TranscriptFallbacks ==
    /\ \A i, j \in 1..Len(trace) : i < j => Rank(trace[i]) < Rank(trace[j])
    /\ "list_transcripts" \in Range(trace) => "get_transcript" \in Range(trace)
    /\ "find_manually_created_transcript" \in Range(trace) =>
          find_transcript(transcript_list, {"en"}) = NoTranscript
    /\ (exc.msg = <<"No transcript found after trying all methods">>) =>
          /\ transcript = NoTranscript
          /\ {"find_transcript", "find_manually_created_transcript",
              "transcripts.values"} \subseteq Range(trace)
    /\ (pc = "yt_return" /\ transcript_list # {}) => content # None

\* C8: the model is never called with empty or whitespace-only content:
\* extract_text_from_url returns None or a text with a non-whitespace
\* character, and when the extracted transcript or text is None, empty or
\* whitespace-only, summarize_content returns (None, error) without
\* building or running the chain.
C8_NoBlankContent ==
    /\ pc = "web_return" =>
          (content = None \/ \E i \in 1..Len(content) : content[i] # " ")
    /\ (pc = "chain" \/ "llm" \in Range(trace)) =>
          /\ Len(docs) = 1
          /\ \E i \in 1..Len(docs[1].page_content) : docs[1].page_content[i] # " "
    /\ (Returned /\ Range(trace) \cap {"get_transcript", "requests.get"} # {}
                 /\ (content = None \/ Blank(content))) =>
          /\ summary = None
          /\ error # None /\ Len(error) > 0
          /\ "llm" \notin Range(trace)

\* C8 witness: a transcript of two empty segments, ' ', passed the test of
\* the extractor's result and was stopped by the test of the document
C8_Witness ==
    /\ pc = "render"
    /\ content = <<" ">>
    /\ docs = <<[page_content |-> <<" ">>]>>
    /\ error = MsgNoContent
    /\ "llm" \notin Range(trace)

\* C9: summarize_content returns (summary, None) or (None, non-empty error),
\* never both and never neither; the page shows the summary as a success
\* exactly when the error is None, else the error, and never a success
\* together with an error.
C9_OneOutcome ==
    /\ Returned =>
          \/ summary # None /\ error = None
          \/ summary = None /\ error # None /\ Len(error) > 0
    /\ (pc = "idle" /\ "render" \in Range(trace)) =>
          /\ Last(shown) = IF error = None
                           THEN [kind |-> "success", text |-> summary]
                           ELSE [kind |-> "error", text |-> error]
          /\ \A i \in 1..(Len(shown) - 1) : shown[i].kind # "success"
          /\ ~(\E i, j \in 1..Len(shown) :
                  shown[i].kind = "success" /\ shown[j].kind = "error")

\* C9 witness: the model call failed with an empty message and the page
\* shows the error string, no success
C9_Witness ==
    /\ pc = "idle"
    /\ "llm" \in Range(trace)
    /\ summary = None
    /\ shown = <<[kind |-> "error", text |-> <<"Error processing content: ">>]>>

====
